---- MODULE Spec2Model ----
(***************************************************************************)
(* A model of tracemem (src/tracemem/tracemem.py): the MEMLOGS singleton   *)
(* (class MemLogsList), the sampling function MEMPOINT, the query function *)
(* MEMORY, the decorator MEMTRACE and the report MEMPRINT.                 *)
(*                                                                         *)
(* The state is the MEMLOGS object (its data and provided_IDs lists), the  *)
(* class attribute MemLogsList._instance and the object it names when that *)
(* is not MEMLOGS, the MEMTRACE-wrapped calls in progress, and the outcome *)
(* of the last operation (its return value or the exception it raised).    *)
(* Init is the state right after `import tracemem`.                        *)
(***************************************************************************)
EXTENDS Integers, Sequences, FiniteSets, TLC

\* ------------------------------------------------------------------ bounds
\* Samples submitted to the log after the import sample.
MaxCalls == 3

VARIABLES
    data,          \* MEMLOGS.data: the list of MemLog(ID, memory)
    provided_IDs,  \* MEMLOGS.provided_IDs: the raw IDs given to append
    instance,      \* MemLogsList._instance: "MEMLOGS", or "other" for a later object
    other,         \* the object _instance names when it is not MEMLOGS
    stack,         \* the activations of MEMTRACE's inner() whose func has not finished
    result,        \* the last operation: its name, arguments, how it ended, its value
    submitted      \* history: every raw ID a successful append has taken, never reset

vars == <<data, provided_IDs, instance, other, stack, result, submitted>>

\* ------------------------------------------------------------ Python values
NoneV == [t |-> "None"]
IntV(n) == [t |-> "int", v |-> n]
StrV(s) == [t |-> "str", v |-> s]
ListV(s) == [t |-> "list", v |-> s]
ObjV(k) == [t |-> "MemLogsList", v |-> k]

\* The namedtuple MemLog(ID, memory), as it is stored in data.
MemLog(ID, memory) == [ID |-> ID, memory |-> memory]
\* A MemLog as a value handed around.
MemLogV(m) == [t |-> "MemLog", v |-> m]

\* str(): None becomes "None", a str is itself, an int its decimal digits.
str(x) ==
    IF x.t = "None" THEN "None"
    ELSE IF x.t = "int" THEN ToString(x.v)
    ELSE x.v

\* Truth value of an argument, as `if x` takes it.
Truthy(x) ==
    IF x.t = "None" THEN FALSE
    ELSE IF x.t = "int" THEN x.v # 0
    ELSE x.v # ""

\* list.count
RECURSIVE Count(_, _)
Count(s, x) ==
    IF s = <<>> THEN 0
    ELSE (IF s[1] = x THEN 1 ELSE 0) + Count(Tail(s), x)

\* ------------------------------------------------------------------ inputs
\* PROCESS.memory_info().rss, in bytes: the measurement source is outside the
\* program; here the process holds 128 KiB more for every sample in the log, so
\* two samples never carry the same reading.
rss == 131072 * (Len(data) + 1)
\* IDs given to MEMPOINT.
PointIDs == {NoneV, StrV("None"), StrV("x"), StrV("x-2")}
\* <<ID_before, ID_after>> given to MEMTRACE: none, empty strings, two labels.
TraceIDs == {<<NoneV, NoneV>>, <<StrV(""), StrV("")>>, <<StrV("B"), StrV("A")>>}
\* Names of the wrapped functions.
Funcs == {"f"}
\* What a wrapped function returns, and what it raises.
Values == {NoneV, IntV(7)}
Exceptions == {"ValueError"}
\* Names of the functions user code calls MEMLOGS.append from.
Callers == {"<module>", "helper", "MEMPOINT"}
\* What user code hands to MEMLOGS.append.
AppendArgs == {StrV("Wrong!"), MemLogV(MemLog("x", 131072))}
\* What user code hands to the constructor.
CtorData == {<<>>, <<MemLog("a", 131072)>>}

\* ------------------------------------------------------- MemLogsList.append
\* ID_new with the suffix counting the earlier submissions, not this one.
ID_new_CountsEarlier(provided, ID) ==
    IF Count(provided, ID) > 0
    THEN ID \o "-" \o ToString(Count(provided, ID))
    ELSE ID

\* The stored ID of a sample whose raw ID is ID, given the raw IDs taken so far.
ID_new(provided, ID) ==
    IF Count(provided, ID) > 0
    THEN ID \o "-" \o ToString(Count(provided, ID) + 1)
    ELSE ID

\* How append ends for a caller frame named `caller`: the exception it raises,
\* or "ok". The guard reads only the name of the calling function.
appendError(caller, memlog) ==
    IF caller # "MEMPOINT" THEN "IncorrectUseOfMEMLOGSError"
    ELSE IF memlog.t # "MemLog" THEN "AttributeError"
    ELSE "ok"

\* append that skips a sample whose raw ID was taken before.
append_DropsRepeated(caller, memlog) ==
    IF appendError(caller, memlog) = "ok" /\ Count(provided_IDs, memlog.v.ID) = 0
    THEN /\ provided_IDs' = Append(provided_IDs, memlog.v.ID)
         /\ data' = Append(data, MemLog(memlog.v.ID, memlog.v.memory))
         /\ submitted' = Append(submitted, memlog.v.ID)
    ELSE UNCHANGED <<data, provided_IDs, submitted>>

\* append that stores the sample without noting its raw ID.
append_ForgetsRaw(caller, memlog) ==
    IF appendError(caller, memlog) = "ok"
    THEN /\ provided_IDs' = provided_IDs
         /\ data' = Append(data, MemLog(ID_new(provided_IDs, memlog.v.ID), memlog.v.memory))
         /\ submitted' = Append(submitted, memlog.v.ID)
    ELSE UNCHANGED <<data, provided_IDs, submitted>>

\* append that puts the sample at the front of the list.
append_AtFront(caller, memlog) ==
    IF appendError(caller, memlog) = "ok"
    THEN /\ provided_IDs' = <<memlog.v.ID>> \o provided_IDs
         /\ data' = <<MemLog(ID_new(provided_IDs, memlog.v.ID), memlog.v.memory)>> \o data
         /\ submitted' = Append(submitted, memlog.v.ID)
    ELSE UNCHANGED <<data, provided_IDs, submitted>>

append(caller, memlog) ==
    IF appendError(caller, memlog) = "ok"
    THEN /\ provided_IDs' = Append(provided_IDs, memlog.v.ID)
         /\ data' = Append(data, MemLog(ID_new(provided_IDs, memlog.v.ID), memlog.v.memory))
         /\ submitted' = Append(submitted, memlog.v.ID)
    ELSE UNCHANGED <<data, provided_IDs, submitted>>

\* ---------------------------------------------------------------- MEMPOINT
\* The body of MEMPOINT up to its return: one reading, one append.
point(ID, memory) == append("MEMPOINT", MemLogV(MemLog(str(ID), memory)))

\* How that append ends: "ok", or the exception that leaves MEMPOINT.
pointError(ID, memory) == appendError("MEMPOINT", MemLogV(MemLog(str(ID), memory)))

\* MEMPOINT that returns a second reading, taken after the append.
pointReturn_Rereads(memory, return_memory) ==
    IF return_memory THEN IntV(memory + 131072) ELSE NoneV

\* What MEMPOINT returns.
pointReturn(memory, return_memory) ==
    IF return_memory THEN IntV(memory) ELSE NoneV

MEMPOINT(ID, return_memory) ==
    /\ Len(submitted) <= MaxCalls
    /\ point(ID, rss)
    /\ result' = [op |-> "MEMPOINT", arg |-> <<ID, IntV(IF return_memory THEN 1 ELSE 0)>>,
                  kind |-> IF pointError(ID, rss) = "ok" THEN "return" ELSE "raise",
                  val |-> IF pointError(ID, rss) = "ok"
                          THEN pointReturn(rss, return_memory)
                          ELSE StrV(pointError(ID, rss))]
    /\ UNCHANGED <<instance, other, stack>>

\* ------------------------------------------------------------------ MEMORY
\* MEMORY that also logs the reading it returns.
MEMORY_Logs ==
    /\ Len(submitted) <= MaxCalls
    /\ point(NoneV, rss)
    /\ result' = [op |-> "MEMORY", arg |-> <<>>, kind |-> "return", val |-> IntV(rss)]
    /\ UNCHANGED <<instance, other, stack>>

MEMORY ==
    /\ result' = [op |-> "MEMORY", arg |-> <<>>, kind |-> "return", val |-> IntV(rss)]
    /\ UNCHANGED <<data, provided_IDs, submitted, instance, other, stack>>

\* ------------------------------------------------------ direct use of MEMLOGS
\* MEMLOGS.append(memlog) called by user code from a function named `caller`.
DirectAppend(caller, memlog) ==
    /\ appendError(caller, memlog) = "ok" => Len(submitted) <= MaxCalls
    /\ append(caller, memlog)
    /\ result' = [op |-> "append", arg |-> <<StrV(caller), memlog>>,
                  kind |-> IF appendError(caller, memlog) = "ok" THEN "return" ELSE "raise",
                  val |-> IF appendError(caller, memlog) = "ok"
                          THEN NoneV ELSE StrV(appendError(caller, memlog))]
    /\ UNCHANGED <<instance, other, stack>>

\* __setitem__ that assigns at an index in range before it raises.
setitem_Assigns(i, value) ==
    /\ data' = [k \in 1 .. Len(data) |->
                  IF k = i + 1 \/ k = Len(data) + i + 1 THEN MemLog(str(value), 0) ELSE data[k]]
    /\ UNCHANGED <<provided_IDs, submitted>>

\* What MEMLOGS[i] = value does to the log: nothing, it raises.
setitem(i, value) == UNCHANGED <<data, provided_IDs, submitted>>

SetItem(i, value) ==
    /\ setitem(i, value)
    /\ result' = [op |-> "__setitem__", arg |-> <<IntV(i), value>>,
                  kind |-> "raise", val |-> StrV("IncorrectUseOfMEMLOGSError")]
    /\ UNCHANGED <<instance, other, stack>>

\* ---------------------------------------------------------------- MEMTRACE
\* The label inner() submits: the one given to MEMTRACE if it is truthy, else
\* the one made from the function's name.
traceLabel(given, prefix, func) ==
    IF Truthy(given) THEN given ELSE StrV(prefix \o " " \o func \o "()")

\* A wrapped function is called: inner() submits the 'before' sample and
\* enters func. base is len(MEMLOGS) when inner() was entered.
inner_call(func, ID_before, ID_after) ==
    /\ Len(submitted) <= MaxCalls
    /\ point(traceLabel(ID_before, "Before", func), rss)
    /\ stack' = Append(stack, [func |-> func, ID_before |-> ID_before,
                                ID_after |-> ID_after, base |-> Len(data)])
    /\ result' = [op |-> "inner", arg |-> <<StrV(func), ID_before, ID_after>>,
                  kind |-> "call", val |-> NoneV]
    /\ UNCHANGED <<instance, other>>

\* inner() that returns right after func, without the 'after' sample.
inner_return_NoAfter(f) ==
    /\ stack # <<>>
    /\ LET fr == stack[Len(stack)] IN
         result' = [op |-> "inner", arg |-> <<StrV(fr.func), IntV(fr.base), f>>,
                    kind |-> "return", val |-> f]
    /\ stack' = SubSeq(stack, 1, Len(stack) - 1)
    /\ UNCHANGED <<data, provided_IDs, submitted, instance, other>>

\* What inner() returns once func has returned f.
innerValue(f) == f

\* func returns f: inner() submits the 'after' sample and returns.
inner_return(f) ==
    /\ stack # <<>>
    /\ Len(submitted) <= MaxCalls
    /\ LET fr == stack[Len(stack)] IN
         /\ point(traceLabel(fr.ID_after, "After", fr.func), rss)
         /\ result' = [op |-> "inner", arg |-> <<StrV(fr.func), IntV(fr.base), f>>,
                       kind |-> "return", val |-> innerValue(f)]
    /\ stack' = SubSeq(stack, 1, Len(stack) - 1)
    /\ UNCHANGED <<instance, other>>

\* inner() with the 'after' sample in a finally block: submitted on a raise too.
raiseEffect_Finally ==
    IF Len(submitted) <= MaxCalls
    THEN point(traceLabel(stack[Len(stack)].ID_after, "After", stack[Len(stack)].func), rss)
    ELSE UNCHANGED <<data, provided_IDs, submitted>>

\* What the log is after func has raised inside inner(): nothing is submitted.
raiseEffect == UNCHANGED <<data, provided_IDs, submitted>>

\* func raises exc: it leaves inner() at line 176, nothing catches it there.
inner_raise(exc) ==
    /\ stack # <<>>
    /\ raiseEffect
    /\ LET fr == stack[Len(stack)] IN
         result' = [op |-> "inner", arg |-> <<StrV(fr.func), IntV(fr.base), StrV(exc)>>,
                    kind |-> "raise", val |-> StrV(exc)]
    /\ stack' = SubSeq(stack, 1, Len(stack) - 1)
    /\ UNCHANGED <<instance, other>>

\* ------------------------------------------------------------------- reads
\* All reads leave the log as it is.
ReadOnly == UNCHANGED <<data, provided_IDs, submitted, instance, other, stack>>

\* list[i] that takes no negative index.
Position_NoNegative(s, i) == IF 0 <= i /\ i < Len(s) THEN i + 1 ELSE 0

\* list[i] for an integer i: the position (from 1) it reads, 0 for IndexError.
Position(s, i) ==
    IF 0 <= i /\ i < Len(s) THEN i + 1
    ELSE IF i < 0 /\ -Len(s) <= i THEN Len(s) + i + 1
    ELSE 0

\* A slice bound clamped as list slicing clamps it.
Clamp(s, b, default) ==
    IF b.t = "None" THEN default
    ELSE IF b.v < 0 THEN (IF b.v + Len(s) < 0 THEN 0 ELSE b.v + Len(s))
    ELSE IF b.v > Len(s) THEN Len(s) ELSE b.v

\* list[lo:hi]
Slice(s, lo, hi) == SubSeq(s, Clamp(s, lo, 0) + 1, Clamp(s, hi, Len(s)))

getitem(i) ==
    IF i.t = "slice"
    THEN [kind |-> "return", val |-> ListV(Slice(data, i.lo, i.hi))]
    ELSE IF Position(data, i.v) = 0
         THEN [kind |-> "raise", val |-> StrV("IndexError")]
         ELSE [kind |-> "return", val |-> MemLogV(data[Position(data, i.v)])]

GetItem(i) ==
    /\ result' = [op |-> "__getitem__", arg |-> <<i>>,
                  kind |-> getitem(i).kind, val |-> getitem(i).val]
    /\ ReadOnly

len == Len(data)

IDs == [k \in 1 .. Len(data) |-> data[k].ID]

memories == [k \in 1 .. Len(data) |-> data[k].memory]

\* __iter__ that yields the newest sample first.
iter_Reversed == [k \in 1 .. Len(data) |-> MemLog(data[Len(data) + 1 - k].ID,
                                                   data[Len(data) + 1 - k].memory)]

iter == [k \in 1 .. Len(data) |-> MemLog(data[k].ID, data[k].memory)]

\* The predicates and functions user code hands to filter and map.
apply(fn, memlog) ==
    CASE fn = "always" -> TRUE
      [] fn = "big" -> memlog.memory > 256 * 1024
      [] fn = "identity" -> memlog
      [] fn = "getID" -> memlog.ID

RECURSIVE filter(_, _)
filter(s, predicate) ==
    IF s = <<>> THEN <<>>
    ELSE (IF apply(predicate, s[1]) THEN <<s[1]>> ELSE <<>>) \o filter(Tail(s), predicate)

map(s, func) == [k \in 1 .. Len(s) |-> apply(func, s[k])]

Read(op) ==
    /\ result' = [op |-> op, arg |-> <<>>, kind |-> "return",
                  val |-> CASE op = "__len__" -> IntV(len)
                            [] op = "IDs" -> ListV(IDs)
                            [] op = "memories" -> ListV(memories)
                            [] op = "__iter__" -> ListV(iter)]
    /\ ReadOnly

Filter(predicate) ==
    /\ result' = [op |-> "filter", arg |-> <<StrV(predicate)>>, kind |-> "return",
                  val |-> ListV(filter(data, predicate))]
    /\ ReadOnly

Map(func) ==
    /\ result' = [op |-> "map", arg |-> <<StrV(func)>>, kind |-> "return",
                  val |-> ListV(map(data, func))]
    /\ ReadOnly

\* ---------------------------------------------------------- MB and MEMPRINT
\* MB(memory, round, 2), in hundredths of a MB: memory / 1024 / 1024 is exact
\* in a float for these sizes, and round(x, 2) rounds it to the nearest
\* hundredth, a tie to the even one.
MB_round2(memory) ==
    LET q == (memory * 100) \div (1024 * 1024)
        r == (memory * 100) % (1024 * 1024)
    IN  IF 2 * r > 1024 * 1024 \/ (2 * r = 1024 * 1024 /\ q % 2 = 1) THEN q + 1 ELSE q

\* A line that leaves the label part empty for the label "None".
printLine_BlankNone(i, memlog) ==
    [index |-> i, mb100 |-> MB_round2(memlog.memory),
     label |-> IF memlog.ID # "" /\ memlog.ID # "None" THEN memlog.ID ELSE ""]

\* The line MEMPRINT prints for the sample at index i (from 0).
printLine(i, memlog) ==
    [index |-> i, mb100 |-> MB_round2(memlog.memory),
     label |-> IF memlog.ID # "" THEN memlog.ID ELSE ""]

MEMPRINT ==
    /\ result' = [op |-> "MEMPRINT", arg |-> <<>>, kind |-> "return",
                  val |-> ListV([k \in 1 .. Len(iter) |-> printLine(k - 1, iter[k])])]
    /\ ReadOnly

\* ------------------------------------------------- MemLogsList(data) again
\* The data of the object MemLogsList._instance names.
instanceData == IF instance = "MEMLOGS" THEN data ELSE other.data

\* __new__: `not cls._instance` is the truth value of the object, which has
\* __len__ and no __bool__, so an object whose log is empty counts as none
\* and a new object replaces it in _instance.
newMakesObject == Len(instanceData) = 0

\* The object __new__ returns: a new one, or the one _instance names.
newReturns == IF newMakesObject THEN "new" ELSE instance

\* __init__(self, data): runs on whatever object __new__ returned.
init(self, d) ==
    IF self = "MEMLOGS"
    THEN /\ data' = d
         /\ provided_IDs' = <<>>
         /\ other' = other
    ELSE /\ other' = [data |-> d, provided_IDs |-> <<>>]
         /\ UNCHANGED <<data, provided_IDs>>

\* MemLogsList(d) called by user code after import.
Construct(d) ==
    /\ init(newReturns, d)
    /\ instance' = IF newReturns = "MEMLOGS" THEN "MEMLOGS" ELSE "other"
    /\ result' = [op |-> "MemLogsList", arg |-> <<ListV(d)>>, kind |-> "return",
                  val |-> ObjV(newReturns)]
    /\ UNCHANGED <<submitted, stack>>

\* ------------------------------------------------------------ specification
\* Index arguments: every integer from one below -len to len, and the slices
\* [:], [1:-1], [20:25] and [-2:].
Indexes == {IntV(i) : i \in -(Len(data) + 1) .. Len(data)}
SliceV(lo, hi) == [t |-> "slice", lo |-> lo, hi |-> hi]
Slices == {SliceV(NoneV, NoneV), SliceV(IntV(1), IntV(-1)),
           SliceV(IntV(20), IntV(25)), SliceV(IntV(-2), NoneV)}

Init ==
    /\ data = <<MemLog("tracemem import", 131072)>>
    /\ provided_IDs = <<"tracemem import">>
    /\ submitted = <<"tracemem import">>
    /\ instance = "MEMLOGS"
    /\ other = [data |-> <<>>, provided_IDs |-> <<>>]
    /\ stack = <<>>
    /\ result = [op |-> "import", arg |-> <<>>, kind |-> "return", val |-> NoneV]

\* The public interface after import.
Next ==
    \/ \E ID \in PointIDs, return_memory \in BOOLEAN : MEMPOINT(ID, return_memory)
    \/ MEMORY
    \/ \E func \in Funcs, IDs_given \in TraceIDs : inner_call(func, IDs_given[1], IDs_given[2])
    \/ \E f \in Values : inner_return(f)
    \/ \E exc \in Exceptions : inner_raise(exc)
    \/ \E caller \in Callers, memlog \in AppendArgs : DirectAppend(caller, memlog)
    \/ \E i \in {-1, 0, Len(data)}, value \in {StrV("Wrong!")} : SetItem(i, value)
    \/ \E i \in Indexes \cup Slices : GetItem(i)
    \/ \E op \in {"__len__", "IDs", "memories", "__iter__"} : Read(op)
    \/ \E predicate \in {"always", "big"} : Filter(predicate)
    \/ \E func \in {"identity", "getID"} : Map(func)
    \/ MEMPRINT

Spec == Init /\ [][Next]_vars

\* MEMPOINT calls alone.
NextPoint == \E ID \in PointIDs, return_memory \in BOOLEAN : MEMPOINT(ID, return_memory)

SpecPoint == Init /\ [][NextPoint]_vars

\* MEMPOINT calls, reads, and the constructor called again by user code.
NextCtor ==
    \/ \E ID \in PointIDs, return_memory \in BOOLEAN : MEMPOINT(ID, return_memory)
    \/ \E op \in {"__len__", "IDs"} : Read(op)
    \/ \E d \in CtorData : Construct(d)

SpecCtor == Init /\ [][NextCtor]_vars

\* ------------------------------------------------------------- MB(memory)
\* Python ints have no width and floats are IEEE doubles, so MB is computed on
\* binary numerals: an int is its bits, most significant first, without
\* leading zeros (0 is <<>>); a float is [m, e], standing for m * 2^e, with
\* at most MantissaBits bits in m.
MantissaBits == 53
\* The longest numeral among the small N tried.
MaxBits == 4

Zeros(k) == [i \in 1 .. k |-> 0]

RECURSIVE Bits(_)
Bits(n) == IF n = 0 THEN <<>> ELSE Bits(n \div 2) \o <<n % 2>>

\* 2^k + d, for 0 <= d < 2^k
Pow2Plus(k, d) == <<1>> \o Zeros(k - Len(Bits(d))) \o Bits(d)

\* b * 2^k on ints: exact.
ShiftLeft(b, k) == IF b = <<>> THEN <<>> ELSE b \o Zeros(k)

\* b + 1
RECURSIVE Inc(_)
Inc(b) ==
    IF b = <<>> THEN <<1>>
    ELSE IF b[Len(b)] = 0 THEN SubSeq(b, 1, Len(b) - 1) \o <<1>>
    ELSE Inc(SubSeq(b, 1, Len(b) - 1)) \o <<0>>

\* int / 2^k, the true division of tracemem.py line 232: the quotient rounded
\* to the nearest double, a tie to the even one.
TrueDiv(b, k) ==
    IF Len(b) <= MantissaBits THEN [m |-> b, e |-> -k]
    ELSE LET head == SubSeq(b, 1, MantissaBits)
             tail == SubSeq(b, MantissaBits + 1, Len(b))
             half == tail[1] = 1 /\ \A i \in 2 .. Len(tail) : tail[i] = 0
             up == tail[1] = 1 /\ (~half \/ head[MantissaBits] = 1)
             m == IF up THEN Inc(head) ELSE head
         IN  IF Len(m) > MantissaBits
             THEN [m |-> SubSeq(m, 1, MantissaBits), e |-> Len(tail) + 1 - k]
             ELSE [m |-> m, e |-> Len(tail) - k]

\* float / 2^k: exact, only the exponent moves.
FloatDiv(x, k) == [m |-> x.m, e |-> x.e - k]

\* A float with the trailing zeros of its mantissa moved into the exponent:
\* two floats, or a float and an int, are equal in Python when these agree.
RECURSIVE Canon(_)
Canon(x) ==
    IF x.m = <<>> THEN [m |-> <<>>, e |-> 0]
    ELSE IF x.m[Len(x.m)] = 0 THEN Canon([m |-> SubSeq(x.m, 1, Len(x.m) - 1), e |-> x.e + 1])
    ELSE x

FloatV(x) == [t |-> "float", v |-> Canon(x)]
\* A rounding function handed to MB, and the value of calling it.
FuncV(name) == [t |-> "function", v |-> name]
CallV(f, args) == [t |-> "call", f |-> f.v, args |-> args]

\* MB that divides by 1024 once.
MB_DividesOnce(memory, round_func, args) ==
    IF ~Truthy(round_func) THEN FloatV(TrueDiv(memory, 10))
    ELSE CallV(round_func, <<FloatV(TrueDiv(memory, 10))>> \o args)

\* MB(memory, round_func, *args) for an int memory.
MB(memory, round_func, args) ==
    IF ~Truthy(round_func) THEN FloatV(FloatDiv(TrueDiv(memory, 10), 10))
    ELSE CallV(round_func, <<FloatV(FloatDiv(TrueDiv(memory, 10), 10))>> \o args)

\* MB(N * 1024 * 1024, round_func, *args) called by user code.
CallMB(N, round_func, args) ==
    /\ result' = [op |-> "MB", arg |-> <<N, round_func, args>>, kind |-> "return",
                  val |-> MB(ShiftLeft(ShiftLeft(N, 10), 10), round_func, args)]
    /\ ReadOnly

\* The N tried: every numeral of at most MaxBits bits, and the numbers next to
\* the largest mantissa.
SmallN == UNION {{<<>>} \cup {<<1>> \o b : b \in [1 .. k -> {0, 1}]} : k \in 0 .. MaxBits - 1}
BigN == {Pow2Plus(k, d) : k \in {MantissaBits - 1, MantissaBits, MantissaBits + 1}, d \in 0 .. 3}
\* The rounding functions and extra arguments tried.
RoundCalls == {<<NoneV, <<>>>>, <<FuncV("round"), <<>>>>,
               <<FuncV("round"), <<IntV(2)>>>>, <<FuncV("signif"), <<IntV(2)>>>>}

NextMB == \E N \in SmallN \cup BigN, c \in RoundCalls : CallMB(N, c[1], c[2])

SpecMB == Init /\ [][NextMB]_vars

\* --------------------------------------------------------- import tracemem
\* Before the first import: the module body has not run, MemLogsList._instance
\* is not set and there is no log.
InitLoad ==
    /\ data = <<>>
    /\ provided_IDs = <<>>
    /\ submitted = <<>>
    /\ instance = "None"
    /\ other = [data |-> <<>>, provided_IDs |-> <<>>]
    /\ stack = <<>>
    /\ result = [op |-> "start", arg |-> <<>>, kind |-> "return", val |-> NoneV]

\* An import that runs the module body every time.
Import_Reruns ==
    /\ Len(submitted) <= MaxCalls
    /\ instance' = "MEMLOGS"
    /\ point(StrV("tracemem import"), rss)
    /\ result' = [op |-> "import", arg |-> <<>>, kind |-> "return", val |-> NoneV]
    /\ UNCHANGED <<other, stack>>

\* `import tracemem`: the first one runs the module body, which builds
\* MEMLOGS = MemLogsList([]) and calls MEMPOINT("tracemem import"); a later
\* one finds the module loaded and runs nothing.
Import ==
    /\ IF instance = "None"
       THEN /\ instance' = "MEMLOGS"
            /\ point(StrV("tracemem import"), rss)
       ELSE UNCHANGED <<instance, data, provided_IDs, submitted>>
    /\ result' = [op |-> "import", arg |-> <<>>, kind |-> "return", val |-> NoneV]
    /\ UNCHANGED <<other, stack>>

\* Imports, and MEMPOINT calls and reads once the library is loaded.
NextImport ==
    \/ Import
    \/ /\ instance # "None"
       /\ \E ID \in PointIDs, return_memory \in BOOLEAN : MEMPOINT(ID, return_memory)
    \/ /\ instance # "None"
       /\ \E i \in Indexes : GetItem(i)

SpecImport == InitLoad /\ [][NextImport]_vars

\* ------------------------------------------------------------------ claims
IsPrefix(s, t) == Len(s) <= Len(t) /\ SubSeq(t, 1, Len(s)) = s
Last(s) == s[Len(s)]
StoredIDs == [k \in 1 .. Len(data) |-> data[k].ID]

\* C1: every MEMPOINT call, whatever its label and whatever the log holds,
\* returns normally and leaves the log one sample longer, the old samples kept
\* in place; so N calls make it N samples longer.
C1_EachCallAppendsOne ==
    [][result'.op = "MEMPOINT" =>
         /\ result'.kind = "return"
         /\ Len(data') = Len(data) + 1
         /\ IsPrefix(data, data')]_vars

\* C1: three calls with an absent label and twice a label that ends in "-2".
C1_Witness ==
    /\ result.op = "MEMPOINT"
    /\ StoredIDs = <<"tracemem import", "None", "x-2", "x-2-2">>

\* C2: a MEMPOINT call whose stringified label was submitted N times before
\* stores the sample under that label when N = 0 and under "<label>-<N+1>"
\* when N >= 1; an absent label counts as the string "None".
C2_LabelDisambiguation ==
    [][result'.op = "MEMPOINT" =>
         LET raw == IF result'.arg[1] = NoneV THEN "None" ELSE result'.arg[1].v
             N == Count(submitted, raw)
         IN  /\ Len(data') = Len(data) + 1
             /\ Last(data').ID = IF N = 0 THEN raw ELSE raw \o "-" \o ToString(N + 1)]_vars

\* C2: x, x, x are stored as x, x-2, x-3.
C2_Witness ==
    /\ result.op = "MEMPOINT"
    /\ StoredIDs = <<"tracemem import", "x", "x-2", "x-3">>

\* C3: no two samples of the log carry the same stored label.
C3_StoredLabelsUnique ==
    \A i, j \in 1 .. Len(data) : i # j => data[i].ID # data[j].ID

\* C4: MEMLOGS.append called by user code, from a function of any name, raises
\* IncorrectUseOfMEMLOGSError and leaves data and provided_IDs as they were.
C4_OnlyMempointAppends ==
    [][result'.op = "append" =>
         /\ result'.kind = "raise"
         /\ result'.val = StrV("IncorrectUseOfMEMLOGSError")
         /\ data' = data
         /\ provided_IDs' = provided_IDs]_vars

\* C5: MEMLOGS[i] = value raises IncorrectUseOfMEMLOGSError for an index in
\* range or out of range, and leaves data and provided_IDs as they were.
C5_ItemAssignmentRejected ==
    [][result'.op = "__setitem__" =>
         /\ result'.kind = "raise"
         /\ result'.val = StrV("IncorrectUseOfMEMLOGSError")
         /\ data' = data
         /\ provided_IDs' = provided_IDs]_vars

\* C5: an assignment at index 0 of a log of three samples was rejected.
C5_Witness ==
    /\ result.op = "__setitem__"
    /\ result.arg[1] = IntV(0)
    /\ result.kind = "raise"
    /\ Len(data) = 3

\* C6: MemLogsList(d) called after import returns the MEMLOGS object and
\* leaves its data and provided_IDs as they were.
C6_ConstructionKeepsLog ==
    [][result'.op = "MemLogsList" =>
         /\ result'.val = ObjV("MEMLOGS")
         /\ data' = data
         /\ provided_IDs' = provided_IDs]_vars

\* C7: every step of the public interface leaves the samples of the log as a
\* prefix of the samples after it.
C7_AppendOnly == [][IsPrefix(data, data')]_vars

\* C7: a rejected append inside a wrapped call, after the log has grown to four.
C7_Witness ==
    /\ result.op = "append"
    /\ result.kind = "raise"
    /\ stack # <<>>
    /\ Len(data) = 4

\* C8: MEMORY returns the current reading and leaves data and provided_IDs as
\* they were.
C8_QueryPurity ==
    [][result'.op = "MEMORY" =>
         /\ result'.kind = "return"
         /\ result'.val = IntV(rss)
         /\ data' = data
         /\ provided_IDs' = provided_IDs]_vars

\* C8: MEMORY was called on a log of three samples.
C8_Witness ==
    /\ result.op = "MEMORY"
    /\ result.val = IntV(524288)
    /\ Len(data) = 3

\* The raw label the step just taken submitted, if it appended one sample.
Submits(raw) ==
    /\ Len(data') = Len(data) + 1
    /\ IsPrefix(data, data')
    /\ Last(provided_IDs') = raw

\* C9: a wrapped call appends one sample under the 'before' label when it is
\* entered; a normal return appends one sample under the 'after' label, after
\* everything the operation recorded, and hands back the operation's value;
\* the log is two longer than at entry when the operation recorded nothing;
\* without labels given to MEMTRACE, and the labels not submitted before, the
\* two samples are stored as "Before <name>()" and "After <name>()".
C9_TraceNormalReturn ==
    [][/\ (result'.op = "inner" /\ result'.kind = "call") =>
            LET fr == Last(stack') IN
            /\ stack' = Append(stack, fr)
            /\ fr.base = Len(data)
            /\ Submits(IF Truthy(fr.ID_before) THEN str(fr.ID_before)
                       ELSE "Before " \o fr.func \o "()")
            /\ (fr.ID_before = NoneV /\ Count(submitted, "Before " \o fr.func \o "()") = 0)
                 => Last(data').ID = "Before " \o fr.func \o "()"
       /\ (result'.op = "inner" /\ result'.kind = "return") =>
            LET fr == Last(stack) IN
            /\ stack = Append(stack', fr)
            /\ Len(data) >= fr.base + 1
            /\ Submits(IF Truthy(fr.ID_after) THEN str(fr.ID_after)
                       ELSE "After " \o fr.func \o "()")
            /\ result'.val = result'.arg[3]
            /\ Len(data) = fr.base + 1 => Len(data') = fr.base + 2
            /\ (fr.ID_after = NoneV /\ Count(submitted, "After " \o fr.func \o "()") = 0)
                 => Last(data').ID = "After " \o fr.func \o "()"]_vars

\* C9: f, wrapped without labels, records nothing and returns 7.
C9_Witness ==
    /\ result.op = "inner"
    /\ result.kind = "return"
    /\ result.val = IntV(7)
    /\ stack = <<>>
    /\ StoredIDs = <<"tracemem import", "Before f()", "After f()">>

\* C10: when the wrapped operation raises, inner() submits nothing more: the
\* log keeps the 'before' sample and what the operation recorded, no 'after'
\* sample is appended, and the exception that leaves inner() is the one raised.
C10_TraceFailure ==
    [][(result'.op = "inner" /\ result'.kind = "raise") =>
         LET fr == Last(stack) IN
         /\ stack = Append(stack', fr)
         /\ data' = data
         /\ provided_IDs' = provided_IDs
         /\ Len(data') >= fr.base + 1
         /\ provided_IDs'[fr.base + 1] =
              (IF Truthy(fr.ID_before) THEN str(fr.ID_before)
               ELSE "Before " \o fr.func \o "()")
         /\ result'.val = result'.arg[3]]_vars

\* C10: f recorded one sample and then raised ValueError.
C10_Witness ==
    /\ result.op = "inner"
    /\ result.kind = "raise"
    /\ result.val = StrV("ValueError")
    /\ stack = <<>>
    /\ StoredIDs = <<"tracemem import", "Before f()", "x">>

\* C11: the first import leaves a log of exactly one sample, labelled
\* "tracemem import" and carrying the reading taken then; a later import
\* changes neither the log nor its first sample; so the first sample of a
\* loaded library is always the import sample.
C11_Initialization ==
    [][/\ result'.op = "import" =>
            IF instance = "None"
            THEN /\ Len(data') = 1
                 /\ data'[1] = MemLog("tracemem import", rss)
            ELSE /\ data' = data
                 /\ data'[1] = MemLog("tracemem import", 131072)
       /\ instance' # "None" => data'[1].ID = "tracemem import"]_vars

\* C11: the library was imported again after two more samples.
C11_Witness ==
    /\ result.op = "import"
    /\ Len(data) = 3
    /\ data[1] = MemLog("tracemem import", 131072)

\* The indexes (from 0) of a list of length L that the slice [lo:hi] selects.
Selected(L, lo, hi) ==
    LET from == IF lo = NoneV THEN 0 ELSE IF lo.v < 0 THEN lo.v + L ELSE lo.v
        upto == IF hi = NoneV THEN L ELSE IF hi.v < 0 THEN hi.v + L ELSE hi.v
    IN  {k \in 0 .. L - 1 : from <= k /\ k < upto}

\* C12: on a log of length L, MEMLOGS[i] returns the sample at position i for
\* 0 <= i < L and the sample at position L + i for -L <= i < 0, and raises
\* IndexError for any other integer; MEMLOGS[lo:hi] never raises and returns a
\* plain list of the samples the slice selects, in order (empty or cut short
\* when the bounds lie outside the log); neither changes the log.
C12_ReadAccess ==
    [][result'.op = "__getitem__" =>
         LET i == result'.arg[1]
             L == Len(data)
         IN  /\ data' = data
             /\ provided_IDs' = provided_IDs
             /\ (i.t = "int" /\ 0 <= i.v /\ i.v < L) =>
                  result'.kind = "return" /\ result'.val = MemLogV(data[i.v + 1])
             /\ (i.t = "int" /\ -L <= i.v /\ i.v < 0) =>
                  result'.kind = "return" /\ result'.val = MemLogV(data[L + i.v + 1])
             /\ (i.t = "int" /\ (i.v < -L \/ i.v >= L)) =>
                  result'.kind = "raise" /\ result'.val = StrV("IndexError")
             /\ i.t = "slice" =>
                  LET S == Selected(L, i.lo, i.hi)
                      R == result'.val.v
                  IN  /\ result'.kind = "return"
                      /\ result'.val.t = "list"
                      /\ Len(R) = Cardinality(S)
                      /\ \A j \in 1 .. Len(R) :
                           \E k \in S : /\ Cardinality({m \in S : m < k}) = j - 1
                                        /\ R[j] = data[k + 1]]_vars

\* C12: MEMLOGS[-3] on a log of three samples returned the first of them.
C12_Witness ==
    /\ result.op = "__getitem__"
    /\ result.arg[1] = IntV(-3)
    /\ Len(data) = 3
    /\ result.kind = "return"
    /\ result.val = MemLogV(data[1])

\* C13: MEMPOINT called with return_memory set returns the memory stored in
\* the sample it has just appended, MEMLOGS[-1].memory; called without, it
\* returns None; the log is one sample longer either way.
C13_ReturnValue ==
    [][result'.op = "MEMPOINT" =>
         /\ Len(data') = Len(data) + 1
         /\ result'.arg[2] = IntV(1) => result'.val = IntV(Last(data').memory)
         /\ result'.arg[2] = IntV(0) => result'.val = NoneV]_vars

\* C13: MEMPOINT(return_memory=True) returned the memory of the third sample.
C13_Witness ==
    /\ result.op = "MEMPOINT"
    /\ result.arg[2] = IntV(1)
    /\ Len(data) = 3
    /\ result.val = IntV(data[3].memory)

\* Whether a double holds the int N exactly: at most MantissaBits bits from
\* its first 1 to its last 1.
Representable(N) == Len(Canon([m |-> N, e |-> 0]).m) <= MantissaBits

C15_ReadViews ==
    [][LET at(i) == getitem(IntV(i))'.val.v
           whole(view, field(_)) ==
               /\ Len(view) = len'
               /\ \A i \in 0 .. len' - 1 : view[i + 1] = field(at(i))
           id(m) == m.ID
           mem(m) == m.memory
           same(m) == m
           chosen(p) == {i \in 0 .. len' - 1 : apply(p, at(i))}
       IN  /\ result'.op = "IDs" => whole(result'.val.v, id)
           /\ result'.op = "memories" => whole(result'.val.v, mem)
           /\ result'.op = "__iter__" => whole(result'.val.v, same)
           /\ (result'.op = "filter" /\ result'.arg[1] = StrV("always"))
                 => whole(result'.val.v, same)
           /\ (result'.op = "map" /\ result'.arg[1] = StrV("identity"))
                 => whole(result'.val.v, same)
           /\ result'.op = "filter" =>
                 /\ Len(result'.val.v) = Cardinality(chosen(result'.arg[1].v))
                 /\ \A i \in chosen(result'.arg[1].v) :
                       result'.val.v[Cardinality({j \in chosen(result'.arg[1].v) : j < i}) + 1]
                           = at(i)
           /\ (result.op = "__iter__" /\ result'.op = "__iter__")
                 => result'.val = result.val]_vars

\* C15: filter(p) returned some of the samples of a log of three, not all.
C15_Witness ==
    /\ result.op = "filter"
    /\ Len(data) = 3
    /\ result.val = ListV(<<data[3]>>)

\* C16: a wrapped function submits its two samples with exactly the labels
\* MEMTRACE was given, whatever their value, the empty string included, and
\* with "Before <name>()" / "After <name>()" only when no label was given.
C16_LabelOverride ==
    [][/\ (result'.op = "inner" /\ result'.kind = "call") =>
            LET fr == Last(stack') IN
            Submits(IF fr.ID_before # NoneV THEN str(fr.ID_before)
                    ELSE "Before " \o fr.func \o "()")
       /\ (result'.op = "inner" /\ result'.kind = "return") =>
            LET fr == Last(stack) IN
            Submits(IF fr.ID_after # NoneV THEN str(fr.ID_after)
                    ELSE "After " \o fr.func \o "()")]_vars

\* C17, as claimed: MEMPRINT writes one line per sample, in log order, with
\* the index from 0, and the line of a sample just recorded by MEMPOINT()
\* without a label has an empty label part.
C17_AbsentLabelEmpty ==
    [][result'.op = "MEMPRINT" =>
         /\ Len(result'.val.v) = Len(data)
         /\ \A k \in 1 .. Len(data) : result'.val.v[k].index = k - 1
         /\ (result.op = "MEMPOINT" /\ result.kind = "return" /\ result.arg[1] = NoneV)
               => Last(result'.val.v).label = ""]_vars

\* C17, amended: MEMPRINT writes one line per sample, in log order, with the
\* index from 0 and the stored label, and the line of a sample just recorded
\* by MEMPOINT() without a label shows "None", or "None-k" when it is the
\* k-th sample submitted as None.
C17_AbsentLabelNone ==
    [][result'.op = "MEMPRINT" =>
         /\ Len(result'.val.v) = Len(data)
         /\ \A k \in 1 .. Len(data) :
               /\ result'.val.v[k].index = k - 1
               /\ result'.val.v[k].label = data[k].ID
         /\ (result.op = "MEMPOINT" /\ result.kind = "return" /\ result.arg[1] = NoneV)
               => Last(result'.val.v).label =
                     (IF Count(provided_IDs, "None") = 1 THEN "None"
                      ELSE "None-" \o ToString(Count(provided_IDs, "None")))]_vars

\* C17: MEMPRINT printed the lines of two samples recorded without a label.
C17_Witness ==
    /\ result.op = "MEMPRINT"
    /\ Len(result.val.v) = 3
    /\ result.val.v[2] = [index |-> 1, mb100 |-> 25, label |-> "None"]
    /\ result.val.v[3] = [index |-> 2, mb100 |-> 38, label |-> "None-2"]

\* C18: provided_IDs is as long as the log, and the stored label at index i
\* is provided_IDs[i] when that raw label occurs at no earlier index, and
\* otherwise provided_IDs[i] followed by "-k", k being the number of its
\* occurrences at indices 0..i.
C18_Lockstep ==
    /\ Len(provided_IDs) = Len(data)
    /\ \A i \in 1 .. Len(data) :
          LET k == Count(SubSeq(provided_IDs, 1, i), provided_IDs[i])
          IN  data[i].ID = IF k = 1 THEN provided_IDs[i]
                           ELSE provided_IDs[i] \o "-" \o ToString(k)

\* C18: after None, x, None and a rejected mutation the log holds None, x,
\* None-2.
C18_Witness ==
    /\ result.kind = "raise"
    /\ result.val = StrV("IncorrectUseOfMEMLOGSError")
    /\ provided_IDs = <<"tracemem import", "None", "x", "None">>
    /\ StoredIDs = <<"tracemem import", "None", "x", "None-2">>
====
